---- MODULE Spec2Model ----
(***************************************************************************)
(* Link-time plug-in management (linktimeplugin.hpp, wrapper strategy).    *)
(*                                                                         *)
(* A linked program holds NDecl registration declarations                  *)
(* (REGISTER_PLUGIN(x)); each is a static Registrar<x> whose base-class    *)
(* constructor appends `this' to the function-local static vector of its   *)
(* RegistrarBase<x::Base> instantiation and whose member plugin_ is the    *)
(* one instance of x.  The model follows the life of the process:          *)
(* start-up (static initialisers, in an unspecified order), main           *)
(* (enumerations through plugins() and through begin()/end()), teardown    *)
(* (static objects destroyed in reverse order of construction).            *)
(*                                                                         *)
(* Spec     : the single-threaded process life cycle.                      *)
(* SpecConc : initialisers run concurrently by several threads (extension  *)
(*            units loaded concurrently after main has started).           *)
(***************************************************************************)
EXTENDS Naturals, Sequences, FiniteSets

\* Number of registration declarations linked into the program.
NDecl == 3
\* Number of plugins() calls main makes at most.
MaxCalls == 2

VARIABLES
    declType,   \* declaration -> the plug-in class x of REGISTER_PLUGIN(x)
    guard,      \* per instantiation: state of the function-local static `regs'
    regs,       \* per instantiation: the vector `regs' (storage and end mark)
    ctorCount,  \* per instantiation: how often `regs' has been constructed
    rstate,     \* per declaration: life of its Registrar object
    plugin_,    \* per declaration: address of the member plugin_ (0: not constructed)
    objs,       \* plug-in instances constructed so far; the index is the address
    completed,  \* static objects in order of completed construction
    phase,      \* "startup", "main", "teardown", "exited", "terminated"
    failed,     \* declarations whose push_back threw
    calls,      \* main's record of the plugins() calls it made and their results
    iter,       \* main's iterator loop over begin()/end()
    pc,         \* SpecConc: position of each initialiser thread
    end_        \* SpecConc: the end mark a thread read at the start of push_back

vars == <<declType, guard, regs, ctorCount, rstate, plugin_, objs, completed,
          phase, failed, calls, iter, pc, end_>>

----------------------------------------------------------------------------
(* Types and the per-interface instantiation *)

Interfaces == {"Animal", "PluginBase"}

Types == {"Cat", "Dog", "Bird"}

Decls == 1..NDecl

\* The alias `using Base = ...' a plug-in class inherits from its base class.
Base(t) == IF t = "Bird" THEN "PluginBase" ELSE "Animal"

BaseOfDecl(d) == Base(declType[d])

\* Variant: one static `regs' shared by every instantiation.
SharedInstantiation(BASE) == "Animal"

\* template<typename BASE> class RegistrarBase: one class, and so one static
\* `regs', per BASE.
Instantiation(BASE) == BASE

----------------------------------------------------------------------------
(* std::vector<RegistrarBase<BASE>*> *)

EmptyVec == [data |-> <<>>, finish |-> 0]

\* The elements of a vector: its storage up to the end mark.
Elems(v) == SubSeq(v.data, 1, v.finish)

Store(s, k, x) == IF k <= Len(s) THEN [s EXCEPT ![k] = x] ELSE Append(s, x)

\* Variant: the element is inserted at the front.
push_front(v, x) == [data |-> <<x>> \o v.data, finish |-> v.finish + 1]

\* push_back: store x at the end mark, then advance the end mark.
push_back(v, x) == [data |-> Store(v.data, v.finish + 1, x), finish |-> v.finish + 1]

----------------------------------------------------------------------------
(* RegistrarBase::registrars(): static RegistarColl regs; return regs; *)

\* Variant: `regs' is not static, every call constructs it anew.
FirstUseAlways(r) == TRUE

\* The static has not been initialised yet: this call constructs it.
FirstUse(r) == guard[r] = "uninit"

\* The vector the call returns a reference to.
StaticRegs(r) == IF FirstUse(r) THEN EmptyVec ELSE regs[r]

\* The static objects whose construction has completed, after the call.
Registered(r) ==
    IF FirstUse(r)
    THEN Append(completed, [kind |-> "regs", iface |-> r, decl |-> 0])
    ELSE completed

\* The call's effect on the static's guard and on the count of constructions.
registrars(r) ==
    /\ guard' = [guard EXCEPT ![r] = "done"]
    /\ ctorCount' = [ctorCount EXCEPT ![r] = IF FirstUse(r) THEN @ + 1 ELSE @]

----------------------------------------------------------------------------
(* Registrar<PLUGIN> *)

\* Variant: plugin_ is a static member, one instance per plug-in class.
AccessorStatic(d) ==
    plugin_[CHOOSE e \in Decls :
                /\ declType[e] = declType[d]
                /\ \A f \in Decls : declType[f] = declType[d] => e <= f]

\* Registrar::operator()(): return plugin_; the caller takes its address.
Accessor(d) == plugin_[d]

NoIter == [state |-> "none", iface |-> "Animal", pos |-> 0, seen |-> <<>>]

Init ==
    /\ declType \in [Decls -> Types]
    /\ guard = [i \in Interfaces |-> "uninit"]
    /\ regs = [i \in Interfaces |-> EmptyVec]
    /\ ctorCount = [i \in Interfaces |-> 0]
    /\ rstate = [d \in Decls |-> "unborn"]
    /\ plugin_ = [d \in Decls |-> 0]
    /\ objs = <<>>
    /\ completed = <<>>
    /\ phase = "startup"
    /\ failed = {}
    /\ calls = <<>>
    /\ iter = NoIter
    /\ pc = [d \in Decls |-> "none"]
    /\ end_ = [d \in Decls |-> 0]

\* RegistrarBase(): registrars().push_back(this).  The constructor is noexcept
\* and catches nothing: an exception leaving push_back (std::bad_alloc when
\* the storage cannot grow) calls std::terminate.
BaseCtor(d) ==
    /\ phase = "startup"
    /\ rstate[d] = "unborn"
    /\ \A e \in Decls : rstate[e] # "base"
    /\ LET r == Instantiation(BaseOfDecl(d)) IN
        /\ registrars(r)
        /\ completed' = Registered(r)
        /\ \E ok \in BOOLEAN :
            IF ok
            THEN /\ regs' = [regs EXCEPT ![r] = push_back(StaticRegs(r), d)]
                 /\ rstate' = [rstate EXCEPT ![d] = "base"]
                 /\ UNCHANGED <<phase, failed>>
            ELSE /\ regs' = [regs EXCEPT ![r] = StaticRegs(r)]
                 /\ phase' = "terminated"
                 /\ failed' = failed \cup {d}
                 /\ UNCHANGED rstate
    /\ UNCHANGED <<declType, plugin_, objs, calls, iter, pc, end_>>

\* The rest of Registrar<PLUGIN>'s construction: the member plugin_, the one
\* instance of PLUGIN this declaration owns.
PluginCtor(d) ==
    /\ phase = "startup"
    /\ rstate[d] = "base"
    /\ objs' = Append(objs, [type |-> declType[d], owner |-> d])
    /\ plugin_' = [plugin_ EXCEPT ![d] = Len(objs) + 1]
    /\ rstate' = [rstate EXCEPT ![d] = "live"]
    /\ completed' = Append(completed,
                           [kind |-> "registrar", iface |-> BaseOfDecl(d), decl |-> d])
    /\ UNCHANGED <<declType, guard, regs, ctorCount, phase, failed, calls, iter, pc, end_>>

\* Variant: main is entered while initialisers are still outstanding.
StartMainEarly ==
    /\ phase = "startup"
    /\ \A d \in Decls : rstate[d] # "base"
    /\ phase' = "main"
    /\ UNCHANGED <<declType, guard, regs, ctorCount, rstate, plugin_, objs, completed,
                   failed, calls, iter, pc, end_>>

\* The objects REGISTER_PLUGIN defines have static storage duration: they are
\* all initialised when main is entered.
StartMain ==
    /\ phase = "startup"
    /\ \A d \in Decls : rstate[d] = "live"
    /\ phase' = "main"
    /\ UNCHANGED <<declType, guard, regs, ctorCount, rstate, plugin_, objs, completed,
                   failed, calls, iter, pc, end_>>

----------------------------------------------------------------------------
(* Enumeration: plugins<T>() and RegistrarBase<T>::plugins() *)

\* for each r of registrars(): ret.push_back(address of r->operator()())
RECURSIVE PluginsLoop(_, _)
PluginsLoop(rs, ret) ==
    IF rs = <<>> THEN ret
    ELSE PluginsLoop(Tail(rs), Append(ret, Accessor(Head(rs))))

\* Variant: each handle is inserted at the front of ret.
RECURSIVE Reversed(_)
Reversed(q) == IF q = <<>> THEN <<>> ELSE Append(Reversed(Tail(q)), Head(q))

PluginsOfReversed(r) == Reversed(PluginsLoop(Elems(StaticRegs(r)), <<>>))

\* PluginColl ret; <loop>; return ret;
PluginsOf(r) == PluginsLoop(Elems(StaticRegs(r)), <<>>)

\* main calls linktimeplugin::plugins<i>().  ret.push_back may throw
\* std::bad_alloc; main catches nothing, so the exception ends the process.
Plugins(i) ==
    /\ phase = "main"
    /\ Len(calls) < MaxCalls
    /\ LET r == Instantiation(i) IN
        /\ registrars(r)
        /\ completed' = Registered(r)
        /\ regs' = [regs EXCEPT ![r] = StaticRegs(r)]
        /\ \E ok \in BOOLEAN :
            IF ok \/ StaticRegs(r).finish = 0
            THEN /\ calls' = Append(calls, [iface |-> i, ret |-> PluginsOf(r)])
                 /\ UNCHANGED phase
            ELSE /\ phase' = "terminated"
                 /\ UNCHANGED calls
    /\ UNCHANGED <<declType, rstate, plugin_, objs, failed, iter, pc, end_>>

----------------------------------------------------------------------------
(* Iteration: for (auto it = begin(); it != end(); ++it) { body }          *)
(* An iterator is a position in the vector's storage, counted from 1.      *)

\* registrars().begin()
Begin(r) == 1

\* registrars().end()
End(r) == StaticRegs(r).finish + 1

\* Variant: the loop runs over rbegin()/rend().
DerefReverse(r, it) == StaticRegs(r).data[StaticRegs(r).finish + 1 - it]

\* Dereferencing the iterator.
Deref(r, it) == StaticRegs(r).data[it]

\* auto it = begin();
IterBegin(i) ==
    /\ phase = "main"
    /\ iter.state # "running"
    /\ LET r == Instantiation(i) IN
        /\ registrars(r)
        /\ completed' = Registered(r)
        /\ regs' = [regs EXCEPT ![r] = StaticRegs(r)]
        /\ iter' = [state |-> "running", iface |-> i, pos |-> Begin(r), seen |-> <<>>]
    /\ UNCHANGED <<declType, rstate, plugin_, objs, phase, failed, calls, pc, end_>>

\* it != end() holds: the body dereferences it, then ++it.
IterNext ==
    /\ phase = "main"
    /\ iter.state = "running"
    /\ LET r == Instantiation(iter.iface) IN
        /\ iter.pos # End(r)
        /\ registrars(r)
        /\ completed' = Registered(r)
        /\ regs' = [regs EXCEPT ![r] = StaticRegs(r)]
        /\ iter' = [iter EXCEPT !.seen = Append(@, Deref(r, iter.pos)),
                                !.pos = @ + 1]
    /\ UNCHANGED <<declType, rstate, plugin_, objs, phase, failed, calls, pc, end_>>

\* it != end() fails: the loop is left.
IterEnd ==
    /\ phase = "main"
    /\ iter.state = "running"
    /\ LET r == Instantiation(iter.iface) IN
        /\ iter.pos = End(r)
        /\ registrars(r)
        /\ completed' = Registered(r)
        /\ regs' = [regs EXCEPT ![r] = StaticRegs(r)]
        /\ iter' = [iter EXCEPT !.state = "done"]
    /\ UNCHANGED <<declType, rstate, plugin_, objs, phase, failed, calls, pc, end_>>

\* return EXIT_SUCCESS; main's locals are gone.
ReturnFromMain ==
    /\ phase = "main"
    /\ iter.state # "running"
    /\ phase' = "teardown"
    /\ calls' = <<>>
    /\ iter' = NoIter
    /\ UNCHANGED <<declType, guard, regs, ctorCount, rstate, plugin_, objs, completed,
                   failed, pc, end_>>

----------------------------------------------------------------------------
(* Teardown: objects of static storage duration are destroyed in the       *)
(* reverse order of the completion of their construction.                  *)

\* Variant: the objects are destroyed in the order of their construction.
DestroyIndexFifo ==
    CHOOSE k \in 1..Len(completed) : \A j \in 1..Len(completed) : k <= j

\* The position in `completed' of the object destroyed next.
DestroyIndex == Len(completed)

Without(s, k) == SubSeq(s, 1, k - 1) \o SubSeq(s, k + 1, Len(s))

\* ~RegistrarBase() = default: the registrar (and its plugin_) is destroyed and
\* nothing is taken out of the vector.  ~vector frees the storage.
DestroyNext ==
    /\ phase = "teardown"
    /\ completed # <<>>
    /\ LET x == completed[DestroyIndex] IN
        /\ completed' = Without(completed, DestroyIndex)
        /\ IF x.kind = "registrar"
           THEN /\ rstate' = [rstate EXCEPT ![x.decl] = "destroyed"]
                /\ UNCHANGED <<guard, regs>>
           ELSE /\ guard' = [guard EXCEPT ![x.iface] = "destroyed"]
                /\ regs' = [regs EXCEPT ![x.iface] = EmptyVec]
                /\ UNCHANGED rstate
    /\ UNCHANGED <<declType, ctorCount, plugin_, objs, phase, failed, calls, iter, pc, end_>>

Exit ==
    /\ phase = "teardown"
    /\ completed = <<>>
    /\ phase' = "exited"
    /\ UNCHANGED <<declType, guard, regs, ctorCount, rstate, plugin_, objs, completed,
                   failed, calls, iter, pc, end_>>

Next ==
    \/ \E d \in Decls : BaseCtor(d)
    \/ \E d \in Decls : PluginCtor(d)
    \/ StartMain
    \/ \E i \in Interfaces : Plugins(i)
    \/ \E i \in Interfaces : IterBegin(i)
    \/ IterNext
    \/ IterEnd
    \/ ReturnFromMain
    \/ DestroyNext
    \/ Exit

Spec == Init /\ [][Next]_vars

----------------------------------------------------------------------------
(* Concurrent initialisers.  Thread t runs the initialiser of declaration  *)
(* t (the construction of its static Registrar) while the other threads    *)
(* run theirs.  The initialisation of the function-local static is         *)
(* synchronised by the language (a thread that finds it in progress        *)
(* waits); push_back is an ordinary unsynchronised member call, so its     *)
(* accesses to the vector interleave with those of the other threads.      *)

InitConc ==
    /\ declType \in [Decls -> Types]
    /\ guard = [i \in Interfaces |-> "uninit"]
    /\ regs = [i \in Interfaces |-> EmptyVec]
    /\ ctorCount = [i \in Interfaces |-> 0]
    /\ rstate = [d \in Decls |-> "unborn"]
    /\ plugin_ = [d \in Decls |-> 0]
    /\ objs = <<>>
    /\ completed = <<>>
    /\ phase = "main"
    /\ failed = {}
    /\ calls = <<>>
    /\ iter = NoIter
    /\ pc = [d \in Decls |-> "call"]
    /\ end_ = [d \in Decls |-> 0]

\* registrars(): the check of the static's guard.
TGuard(t) ==
    /\ phase = "main"
    /\ pc[t] = "call"
    /\ LET r == Instantiation(BaseOfDecl(t)) IN
        \/ /\ guard[r] = "uninit"
           /\ guard' = [guard EXCEPT ![r] = "pending"]
           /\ pc' = [pc EXCEPT ![t] = "construct"]
        \/ /\ guard[r] = "done"
           /\ pc' = [pc EXCEPT ![t] = "read"]
           /\ UNCHANGED guard
    /\ UNCHANGED <<declType, regs, ctorCount, rstate, plugin_, objs, completed, phase,
                   failed, calls, iter, end_>>

\* registrars(): the thread that found the static uninitialised constructs it.
TConstruct(t) ==
    /\ phase = "main"
    /\ pc[t] = "construct"
    /\ LET r == Instantiation(BaseOfDecl(t)) IN
        /\ regs' = [regs EXCEPT ![r] = EmptyVec]
        /\ ctorCount' = [ctorCount EXCEPT ![r] = @ + 1]
        /\ guard' = [guard EXCEPT ![r] = "done"]
        /\ completed' = Append(completed, [kind |-> "regs", iface |-> r, decl |-> 0])
    /\ pc' = [pc EXCEPT ![t] = "read"]
    /\ UNCHANGED <<declType, rstate, plugin_, objs, phase, failed, calls, iter, end_>>

\* push_back(this): read the end mark (and grow the storage, which may throw:
\* the constructor is noexcept, so the process is terminated).
TRead(t) ==
    /\ phase = "main"
    /\ pc[t] = "read"
    /\ LET r == Instantiation(BaseOfDecl(t)) IN
        \E ok \in BOOLEAN :
            IF ok
            THEN /\ end_' = [end_ EXCEPT ![t] = regs[r].finish]
                 /\ pc' = [pc EXCEPT ![t] = "store"]
                 /\ UNCHANGED <<phase, failed>>
            ELSE /\ phase' = "terminated"
                 /\ failed' = failed \cup {t}
                 /\ UNCHANGED <<end_, pc>>
    /\ UNCHANGED <<declType, guard, regs, ctorCount, rstate, plugin_, objs, completed,
                   calls, iter>>

\* push_back(this): store `this' at the end mark that was read.
TStore(t) ==
    /\ phase = "main"
    /\ pc[t] = "store"
    /\ LET r == Instantiation(BaseOfDecl(t)) IN
        regs' = [regs EXCEPT ![r].data = Store(@, end_[t] + 1, t)]
    /\ pc' = [pc EXCEPT ![t] = "bump"]
    /\ UNCHANGED <<declType, guard, ctorCount, rstate, plugin_, objs, completed, phase,
                   failed, calls, iter, end_>>

\* push_back(this): advance the end mark past the stored element.
TBump(t) ==
    /\ phase = "main"
    /\ pc[t] = "bump"
    /\ LET r == Instantiation(BaseOfDecl(t)) IN
        regs' = [regs EXCEPT ![r].finish = end_[t] + 1]
    /\ rstate' = [rstate EXCEPT ![t] = "base"]
    /\ pc' = [pc EXCEPT ![t] = "member"]
    /\ UNCHANGED <<declType, guard, ctorCount, plugin_, objs, completed, phase,
                   failed, calls, iter, end_>>

\* The member plugin_ is constructed: the Registrar is complete.
TMember(t) ==
    /\ phase = "main"
    /\ pc[t] = "member"
    /\ objs' = Append(objs, [type |-> declType[t], owner |-> t])
    /\ plugin_' = [plugin_ EXCEPT ![t] = Len(objs) + 1]
    /\ rstate' = [rstate EXCEPT ![t] = "live"]
    /\ completed' = Append(completed,
                           [kind |-> "registrar", iface |-> BaseOfDecl(t), decl |-> t])
    /\ pc' = [pc EXCEPT ![t] = "done"]
    /\ UNCHANGED <<declType, guard, regs, ctorCount, phase, failed, calls, iter, end_>>

NextConc ==
    \/ \E t \in Decls : TGuard(t)
    \/ \E t \in Decls : TConstruct(t)
    \/ \E t \in Decls : TRead(t)
    \/ \E t \in Decls : TStore(t)
    \/ \E t \in Decls : TBump(t)
    \/ \E t \in Decls : TMember(t)

SpecConc == InitConc /\ [][NextConc]_vars

----------------------------------------------------------------------------
(* Notions the properties are stated in *)

\* The declarations whose plug-in class implements interface i.
DeclsOf(i) == {d \in Decls : BaseOfDecl(d) = i}

\* How often x occurs in sequence s.
Count(x, s) == Cardinality({k \in 1..Len(s) : s[k] = x})

IsPrefix(s, t) == Len(s) <= Len(t) /\ SubSeq(t, 1, Len(s)) = s

\* The registry of interface i as a reader finds it.
Registry(i) == Elems(regs[i])

\* The declarations of interface i in the order their registrars were constructed.
RegistrarsBuilt(i) ==
    SelectSeq(completed, LAMBDA x : x.kind = "registrar" /\ x.iface = i)

\* The handles plugins<i>() owes its caller: the instance of each declaration of
\* i, in registration order.
Expected(i) ==
    [k \in 1..Len(RegistrarsBuilt(i)) |-> plugin_[RegistrarsBuilt(i)[k].decl]]

Constructed(d) == rstate[d] \in {"live", "destroyed"}

----------------------------------------------------------------------------
(* C1 *)

\* C1: add never fails observably.  When the append of a registrar's handle
\* fails, the failure is suppressed: the process is not terminated, and once
\* main runs the failed declaration is the only one missing from its registry.
C1_AddNeverFailsObservably ==
    \A d \in failed :
        /\ phase # "terminated"
        /\ phase = "main" =>
            /\ Count(d, Registry(BaseOfDecl(d))) = 0
            /\ \A e \in Decls \ failed : Count(e, Registry(BaseOfDecl(e))) = 1

----------------------------------------------------------------------------
(* C2 *)

\* C2: concurrent initialisers are safe.  Once every thread has finished its
\* registration, each backing collection has been constructed at most once and
\* the registry of each interface holds the handle of each of its declarations
\* exactly once, and nothing else.
C2_ConcurrentAddsSafe ==
    (\A t \in Decls : pc[t] = "done") =>
        /\ \A i \in Interfaces : ctorCount[i] <= 1
        /\ \A t \in Decls : Count(t, Registry(BaseOfDecl(t))) = 1
        /\ \A i \in Interfaces : Len(Registry(i)) = Cardinality(DeclsOf(i))

\* The part of C2 the language guarantees: the static is constructed once.
ConcConstructedOnce == \A i \in Interfaces : ctorCount[i] <= 1

----------------------------------------------------------------------------
(* C3 *)

C3_AllRegisteredInMain ==
    phase = "main" =>
        /\ \A d \in Decls :
            /\ rstate[d] = "live"
            /\ Count(d, Registry(BaseOfDecl(d))) = 1
        /\ \A k \in 1..Len(calls) :
            Len(calls[k].ret) = Cardinality(DeclsOf(calls[k].iface))

C3_NoAddInMain ==
    phase = "main" => \A i \in Interfaces : Elems(regs'[i]) = Elems(regs[i])

\* C3: every declaration's construction and add complete before main begins.
\* While main runs every declaration is constructed and registered, every
\* enumeration main has made returned one handle per declaration, and no step
\* taken while main runs changes the content of a registry.
C3_RegistrationBeforeMain ==
    []C3_AllRegisteredInMain /\ [][C3_NoAddInMain]_vars

C3_Witness ==
    /\ phase = "main"
    /\ \E k \in 1..Len(calls) :
        /\ Len(calls[k].ret) >= 2
        /\ Len(calls[k].ret) = Cardinality(DeclsOf(calls[k].iface))

----------------------------------------------------------------------------
(* C4 *)

C4_Step ==
    \A i \in Interfaces :
        guard'[i] # "destroyed" => IsPrefix(Elems(regs[i]), Elems(regs'[i]))

\* C4: the registry is append-only and order-preserving.  In every step that
\* leaves the collection in existence, the registry's content before the step is
\* a prefix of its content after the step.
C4_AppendOnly == [][C4_Step]_vars

C4_Witness ==
    /\ phase = "main"
    /\ \E i \in Interfaces : Len(Registry(i)) >= 2
    /\ calls # <<>>
    /\ iter.state = "done"

----------------------------------------------------------------------------
(* C5 *)

\* The instances whose owner is declaration d.
InstancesOf(d) == {a \in 1..Len(objs) : objs[a].owner = d}

\* C5: one instance per declaration, one handle per declaration.  Every
\* constructed declaration owns exactly one instance, and every plugins<i>()
\* result holds exactly one handle per declaration of i: as many handles as
\* declarations, pairwise distinct, and for each declaration exactly one handle
\* that is the instance this declaration owns, of the declaration's class.
C5_OneHandlePerDeclaration ==
    /\ \A d \in Decls : Constructed(d) => Cardinality(InstancesOf(d)) = 1
    /\ Len(objs) = Cardinality({d \in Decls : Constructed(d)})
    /\ \A k \in 1..Len(calls) :
        LET i == calls[k].iface
            ret == calls[k].ret
        IN  /\ Len(ret) = Cardinality(DeclsOf(i))
            /\ \A a, b \in 1..Len(ret) : a # b => ret[a] # ret[b]
            /\ \A d \in DeclsOf(i) :
                /\ Cardinality({a \in 1..Len(ret) : ret[a] \in InstancesOf(d)}) = 1
                /\ \A a \in 1..Len(ret) :
                    ret[a] \in InstancesOf(d) => objs[ret[a]].type = declType[d]

\* A class declared twice: its two handles differ and have the same class.
C5_Witness ==
    /\ phase = "main"
    /\ \E k \in 1..Len(calls) :
        \E a, b \in 1..Len(calls[k].ret) :
            /\ a # b
            /\ calls[k].ret[a] # calls[k].ret[b]
            /\ objs[calls[k].ret[a]].type = objs[calls[k].ret[b]].type

----------------------------------------------------------------------------
(* C6 *)

C6_NoForeignHandle ==
    /\ \A i \in Interfaces :
        \A k \in 1..Len(Registry(i)) : BaseOfDecl(Registry(i)[k]) = i
    /\ \A k \in 1..Len(calls) :
        \A a \in 1..Len(calls[k].ret) :
            Base(objs[calls[k].ret[a]].type) = calls[k].iface

\* A step in which declaration d's registrar is added.
AddOf(d) == rstate[d] = "unborn" /\ rstate'[d] = "base"

C6_Frame ==
    \A d \in Decls :
        AddOf(d) =>
            \A j \in Interfaces \ {BaseOfDecl(d)} :
                /\ regs'[j] = regs[j]
                /\ guard'[j] = guard[j]

\* C6: registries of distinct interfaces are independent.  A registry holds
\* only registrars of its own interface, an enumeration of an interface returns
\* only instances of classes of that interface, and the add of a declaration
\* leaves the collection of every other interface as it was.
C6_Isolation == []C6_NoForeignHandle /\ [][C6_Frame]_vars

C6_Witness ==
    /\ phase = "main"
    /\ \A i \in Interfaces : Len(Registry(i)) >= 1
    /\ \A i \in Interfaces : \E k \in 1..Len(calls) : calls[k].iface = i

----------------------------------------------------------------------------
(* C7 *)

C7_SameResult ==
    \A k \in 1..Len(calls) : calls[k].ret = Expected(calls[k].iface)

C7_ReadOnly ==
    Len(calls') > Len(calls) => regs' = regs

\* C7: enumeration is read-only and repeatable.  A plugins<i>() call leaves
\* every registry as it was, and every result main holds for i is the sequence
\* of the instances of i's declarations in registration order (so any two
\* results for i are the same sequence).
C7_Repeatable == []C7_SameResult /\ [][C7_ReadOnly]_vars

C7_Witness ==
    /\ Len(calls) >= 2
    /\ calls[1].iface = calls[2].iface
    /\ Len(calls[1].ret) >= 2
    /\ calls[1].ret = calls[2].ret

----------------------------------------------------------------------------
(* C8 *)

\* C8: begin()/end() traverse the sequence plugins() returns.  With r a result
\* of plugins<i>() that main holds, the elements an iterator loop over i has
\* seen so far map, through the registrar's accessor, to the handles of r at
\* the same positions, and a finished loop has seen as many elements as r holds.
C8_IterationMatchesPlugins ==
    iter.state # "none" =>
        \A k \in 1..Len(calls) :
            calls[k].iface = iter.iface =>
                /\ Len(iter.seen) <= Len(calls[k].ret)
                /\ \A j \in 1..Len(iter.seen) :
                    Accessor(iter.seen[j]) = calls[k].ret[j]
                /\ iter.state = "done" => Len(iter.seen) = Len(calls[k].ret)

C8_Witness ==
    /\ iter.state = "done"
    /\ Len(iter.seen) >= 2
    /\ \E k \in 1..Len(calls) :
        /\ calls[k].iface = iter.iface
        /\ Len(calls[k].ret) = Len(iter.seen)

----------------------------------------------------------------------------
(* C9 *)

\* Something has called registrars() of interface i.
Touched(i) ==
    \/ \E d \in DeclsOf(i) : rstate[d] # "unborn"
    \/ \E d \in DeclsOf(i) : d \in failed
    \/ \E k \in 1..Len(calls) : calls[k].iface = i
    \/ iter.state # "none" /\ iter.iface = i

\* C9: the backing collection is created lazily and reused.  It is constructed
\* at most once; during start-up it exists exactly when an add has touched its
\* interface, and while main runs it exists whenever an add or an enumeration
\* has touched its interface; and for an interface without declarations every
\* plugins() result is empty and an iterator loop sees no element.
C9_LazyAndReused ==
    \A i \in Interfaces :
        /\ ctorCount[i] <= 1
        /\ (guard[i] = "uninit") <=> (ctorCount[i] = 0)
        /\ phase = "startup" => ((guard[i] = "done") <=> Touched(i))
        /\ phase = "main" => (Touched(i) => guard[i] = "done")
        /\ DeclsOf(i) = {} =>
            /\ \A k \in 1..Len(calls) : calls[k].iface = i => calls[k].ret = <<>>
            /\ (iter.state # "none" /\ iter.iface = i) => iter.seen = <<>>

C9_Witness ==
    /\ phase = "main"
    /\ \E i \in Interfaces :
        /\ DeclsOf(i) = {}
        /\ ctorCount[i] = 1
        /\ \E k \in 1..Len(calls) : calls[k].iface = i /\ calls[k].ret = <<>>
        /\ iter.state = "done" /\ iter.iface = i /\ iter.seen = <<>>

----------------------------------------------------------------------------
(* C10 *)

\* C10: no registry entry dangles while the registry can be read.  While main
\* runs every handle in a registry is a fully constructed, undestroyed
\* registrar owning its instance; a registrar under construction or alive has
\* its collection constructed and not destroyed; a destroyed collection has only
\* destroyed registrars; and a destroyed registrar is still an element of its
\* collection while that exists.
C10_NoDanglingEntry ==
    /\ phase = "main" =>
        \A i \in Interfaces :
            \A k \in 1..Len(Registry(i)) :
                /\ rstate[Registry(i)[k]] = "live"
                /\ Cardinality(InstancesOf(Registry(i)[k])) = 1
                /\ plugin_[Registry(i)[k]] \in InstancesOf(Registry(i)[k])
    /\ \A d \in Decls :
        /\ rstate[d] \in {"base", "live"} => guard[BaseOfDecl(d)] = "done"
        /\ guard[BaseOfDecl(d)] = "destroyed" => rstate[d] = "destroyed"
        /\ (rstate[d] = "destroyed" /\ guard[BaseOfDecl(d)] = "done") =>
            Count(d, Registry(BaseOfDecl(d))) = 1

C10_Witness ==
    /\ phase = "teardown"
    /\ \E d \in Decls :
        /\ rstate[d] = "destroyed"
        /\ guard[BaseOfDecl(d)] = "done"
        /\ Count(d, Registry(BaseOfDecl(d))) = 1
    /\ \E e \in Decls : rstate[e] = "live"

====
